---- MODULE Spec2Model ----
(***************************************************************************)
(* Model of numpy/core/src/umath/reduction.c: count_axes,                  *)
(* PyArray_CopyInitialReduceValues and PyUFunc_ReduceWrapper.              *)
(*                                                                         *)
(* Axes are numbered 1..ndim in the sequences below (C index idim is       *)
(* sequence position idim+1); element indices and output-axis ordinals     *)
(* keep their C values (0-based, -1 for "no axis").                        *)
(*                                                                         *)
(* Element values are symbolic: the operand element at C-order offset k    *)
(* carries the tag k+1, and a result element is the record of how it was   *)
(* initialised and which operand tags were folded into it, in order.       *)
(***************************************************************************)
EXTENDS Integers, Sequences, FiniteSets, TLC

\* Bounds of the explored inputs.
MaxNdim == 2
MaxExtent == 2
MaxBuffers == 2

NULL == "NULL"
Py_None == "Py_None"

\* ------------------------------------------------------------------------
\* Arrays (external array library, only what reduction.c uses of it)
\* ------------------------------------------------------------------------

RECURSIVE Prod(_, _)
\* product of s[i..Len(s)]
Prod(s, i) == IF i > Len(s) THEN 1 ELSE s[i] * Prod(s, i + 1)

PyArray_SIZE(shape) == Prod(shape, 1)

\* element strides of a C-contiguous array of this shape
PyArray_STRIDES(shape) == [i \in 1..Len(shape) |-> Prod(shape, i + 1)]

\* all index tuples of an array of this shape
Indices(shape) ==
    {idx \in [1..Len(shape) -> 0..MaxExtent] :
        \A i \in 1..Len(shape) : idx[i] < shape[i]}

\* index tuple of the element at C-order position k
Unravel(k, shape) ==
    [i \in 1..Len(shape) |-> (k \div Prod(shape, i + 1)) % shape[i]]

RECURSIVE Offset(_, _, _)
\* sum of idx[i] * strides[i] for i in from..Len(idx)
Offset(idx, strides, from) ==
    IF from > Len(idx) THEN 0
    ELSE idx[from] * strides[from] + Offset(idx, strides, from + 1)

\* operand element found at element offset off from the data pointer
OperandAt(off) == off + 1

Uninit == [init |-> "uninit", elems |-> <<>>]
NoArray == [shape |-> <<>>, data |-> <<>>]
NewArray(shape) == [shape |-> shape, data |-> [idx \in Indices(shape) |-> Uninit]]

Shapes(maxnd) ==
    UNION {[1..n -> 0..MaxExtent] : n \in 0..maxnd}

\* ------------------------------------------------------------------------
\* npy_intp (64 bits) and int (32 bits)
\* ------------------------------------------------------------------------

\* An npy_intp is held as five limbs of 15 bits, lowest first, the top limb
\* cut to the 4 bits that make 64; it is not negative here: it counts
\* elements.
LimbBase == 2^15
TopLimb == 2^4

\* the npy_intp of value n, 0 <= n < 2^31
npy_intp(n) ==
    <<n % LimbBase, (n \div LimbBase) % LimbBase, n \div (LimbBase * LimbBase), 0, 0>>

RECURSIVE MulLimbs(_, _, _, _)
MulLimbs(a, e, k, carry) ==
    IF k > Len(a)
    THEN <<>>
    ELSE LET p == a[k] * e + carry IN
         <<p % (IF k = Len(a) THEN TopLimb ELSE LimbBase)>>
             \o MulLimbs(a, e, k + 1, p \div LimbBase)

\* a * e in npy_intp, for an extent 0 <= e <= 2 * LimbBase
MulIntp(a, e) == MulLimbs(a, e, 1, 0)

\* (int) a: the low 32 bits of a, read as a signed number, as every build of
\* numpy converts an out-of-range value
ToInt(a) ==
    LET low == a[1] + LimbBase * a[2] + LimbBase * LimbBase * (a[3] % 2) IN
    IF (a[3] \div 2) % 2 = 0
    THEN low
    ELSE (low - LimbBase * LimbBase) - LimbBase * LimbBase

\* ------------------------------------------------------------------------
\* count_axes
\* ------------------------------------------------------------------------

RECURSIVE count_axes_loop(_, _, _, _)
count_axes_loop(ndim, axis_flags, idim, naxes) ==
    IF idim < ndim
    THEN count_axes_loop(ndim, axis_flags, idim + 1,
                         IF axis_flags[idim + 1] THEN naxes + 1 ELSE naxes)
    ELSE naxes

\* count_axes starting its loop at idim = 1
count_axes_SkipFirst(ndim, axis_flags) == count_axes_loop(ndim, axis_flags, 1, 0)

count_axes(ndim, axis_flags) == count_axes_loop(ndim, axis_flags, 0, 0)

\* ------------------------------------------------------------------------
\* PyArray_CopyInitialReduceValues
\* ------------------------------------------------------------------------

\* CopyInitial_step that multiplies size by the extents of the reduced axes
CopyInitial_step_SizeOfReduced(shape_orig, strides_orig, axis_flags, keepdims, st) ==
    LET i == st.idim + 1 IN
    IF axis_flags[i]
    THEN IF shape_orig[i] = 0
         THEN [st EXCEPT !.error = TRUE]
         ELSE IF keepdims
              THEN [st EXCEPT !.size = MulIntp(@, shape_orig[i]),
                              !.shape = Append(@, 1),
                              !.strides = Append(@, 0),
                              !.idim_out = @ + 1,
                              !.idim = @ + 1]
              ELSE [st EXCEPT !.size = MulIntp(@, shape_orig[i]),
                              !.idim = @ + 1]
    ELSE [st EXCEPT !.shape = Append(@, shape_orig[i]),
                    !.strides = Append(@, strides_orig[i]),
                    !.idim_out = @ + 1,
                    !.idim = @ + 1]

\* CopyInitial_step without the check for a zero-extent reduced axis
CopyInitial_step_NoZeroCheck(shape_orig, strides_orig, axis_flags, keepdims, st) ==
    LET i == st.idim + 1 IN
    IF axis_flags[i]
    THEN IF keepdims
         THEN [st EXCEPT !.shape = Append(@, 1),
                         !.strides = Append(@, 0),
                         !.idim_out = @ + 1,
                         !.idim = @ + 1]
         ELSE [st EXCEPT !.idim = @ + 1]
    ELSE [st EXCEPT !.size = MulIntp(@, shape_orig[i]),
                    !.shape = Append(@, shape_orig[i]),
                    !.strides = Append(@, strides_orig[i]),
                    !.idim_out = @ + 1,
                    !.idim = @ + 1]

\* one pass of the body of the for loop over idim: st holds idim, idim_out,
\* size, shape, strides and whether the zero-size error was raised
CopyInitial_step(shape_orig, strides_orig, axis_flags, keepdims, st) ==
    LET i == st.idim + 1 IN
    IF axis_flags[i]
    THEN IF shape_orig[i] = 0
         THEN [st EXCEPT !.error = TRUE]
         ELSE IF keepdims
              THEN [st EXCEPT !.shape = Append(@, 1),
                              !.strides = Append(@, 0),
                              !.idim_out = @ + 1,
                              !.idim = @ + 1]
              ELSE [st EXCEPT !.idim = @ + 1]
    ELSE [st EXCEPT !.size = MulIntp(@, shape_orig[i]),
                    !.shape = Append(@, shape_orig[i]),
                    !.strides = Append(@, strides_orig[i]),
                    !.idim_out = @ + 1,
                    !.idim = @ + 1]

RECURSIVE CopyInitial_loop(_, _, _, _, _)
\* for (int idim = 0; idim < ndim; idim++), left early by the error return
CopyInitial_loop(shape_orig, strides_orig, axis_flags, keepdims, st) ==
    IF st.idim < Len(shape_orig) /\ ~st.error
    THEN CopyInitial_loop(shape_orig, strides_orig, axis_flags, keepdims,
             CopyInitial_step(shape_orig, strides_orig, axis_flags, keepdims, st))
    ELSE st

\* int idim_out = 0; npy_intp size = 1; idim = 0
CopyInitial_start ==
    [idim |-> 0, idim_out |-> 0, size |-> npy_intp(1),
     shape |-> <<>>, strides |-> <<>>, error |-> FALSE]

CopyInitial_view(shape_orig, axis_flags, keepdims) ==
    CopyInitial_loop(shape_orig, PyArray_STRIDES(shape_orig), axis_flags, keepdims,
                     CopyInitial_start)

\* PyArray_CopyInto(result, op_view): every element of result is assigned the
\* element of the view (shape, strides over the operand's data) at its index
PyArray_CopyInto(result, view) ==
    [result EXCEPT !.data =
        [idx \in DOMAIN result.data |->
            [init |-> "copy",
             elems |-> <<OperandAt(Offset(idx, view.strides, 1))>>]]]

\* the seeder initialising the result before it checks for an empty axis
PyArray_CopyInitialReduceValues_WriteFirst(result, operand, axis_flags, keepdims, view_ok, copy_ok) ==
    LET view == CopyInitial_view(operand, axis_flags, keepdims)
        written == [result EXCEPT !.data =
                       [idx \in DOMAIN result.data |->
                           [init |-> "copy", elems |-> <<OperandAt(0)>>]]]
    IN
    IF view.error
    THEN [ret |-> -1, error |-> "EmptyReductionError", result |-> written]
    ELSE IF ~view_ok
    THEN [ret |-> -1, error |-> "MemoryError", result |-> result]
    ELSE IF ~copy_ok \/ view.shape # result.shape
    THEN [ret |-> -1, error |-> "CopyError", result |-> result]
    ELSE [ret |-> ToInt(view.size), error |-> "none",
          result |-> PyArray_CopyInto(result, view)]

\* the seeder reporting a failure as a count of zero instead of -1
PyArray_CopyInitialReduceValues_ErrorAsZero(result, operand, axis_flags, keepdims, view_ok, copy_ok) ==
    LET view == CopyInitial_view(operand, axis_flags, keepdims) IN
    IF view.error
    THEN [ret |-> 0, error |-> "EmptyReductionError", result |-> result]
    ELSE IF ~view_ok
    THEN [ret |-> 0, error |-> "MemoryError", result |-> result]
    ELSE IF ~copy_ok \/ view.shape # result.shape
    THEN [ret |-> 0, error |-> "CopyError", result |-> result]
    ELSE [ret |-> ToInt(view.size), error |-> "none",
          result |-> PyArray_CopyInto(result, view)]

\* view_ok, copy_ok: whether PyArray_NewFromDescr and PyArray_CopyInto succeed.
\* Returns the C return value (ret), the error raised and the result array.
PyArray_CopyInitialReduceValues(result, operand, axis_flags, keepdims, view_ok, copy_ok) ==
    LET view == CopyInitial_view(operand, axis_flags, keepdims) IN
    IF view.error
    THEN [ret |-> -1, error |-> "EmptyReductionError", result |-> result]
    ELSE IF ~view_ok
    THEN [ret |-> -1, error |-> "MemoryError", result |-> result]
    ELSE IF ~copy_ok \/ view.shape # result.shape
    THEN [ret |-> -1, error |-> "CopyError", result |-> result]
    ELSE [ret |-> ToInt(view.size), error |-> "none",
          result |-> PyArray_CopyInto(result, view)]

\* PyArray_FillWithScalar(result, identity)
PyArray_FillWithScalar(result) ==
    [result EXCEPT !.data =
        [idx \in DOMAIN result.data |-> [init |-> "identity", elems |-> <<>>]]]

\* ------------------------------------------------------------------------
\* The result axes mapping of PyUFunc_ReduceWrapper
\* ------------------------------------------------------------------------

NPY_ITER_REDUCTION_AXIS(axis) == [reduction |-> TRUE, axis |-> axis]
PlainAxis(axis) == [reduction |-> FALSE, axis |-> axis]

\* result_axes_step that gives a non-reduced axis its own position as ordinal
result_axes_step_OwnPosition(axis_flags, keepdims, i, m) ==
    IF axis_flags[i + 1]
    THEN IF keepdims
         THEN [result_axes |-> Append(m.result_axes, NPY_ITER_REDUCTION_AXIS(m.curr_axis)),
               curr_axis |-> m.curr_axis + 1]
         ELSE [result_axes |-> Append(m.result_axes, NPY_ITER_REDUCTION_AXIS(-1)),
               curr_axis |-> m.curr_axis]
    ELSE [result_axes |-> Append(m.result_axes, PlainAxis(i)),
          curr_axis |-> m.curr_axis + 1]

\* result_axes_step that does not advance curr_axis for a kept reduced axis
result_axes_step_NoAdvance(axis_flags, keepdims, i, m) ==
    IF axis_flags[i + 1]
    THEN IF keepdims
         THEN [result_axes |-> Append(m.result_axes, NPY_ITER_REDUCTION_AXIS(m.curr_axis)),
               curr_axis |-> m.curr_axis]
         ELSE [result_axes |-> Append(m.result_axes, NPY_ITER_REDUCTION_AXIS(-1)),
               curr_axis |-> m.curr_axis]
    ELSE [result_axes |-> Append(m.result_axes, PlainAxis(m.curr_axis)),
          curr_axis |-> m.curr_axis + 1]

\* result_axes_step that advances curr_axis for a dropped reduced axis too
result_axes_step_DroppedAdvances(axis_flags, keepdims, i, m) ==
    IF axis_flags[i + 1]
    THEN IF keepdims
         THEN [result_axes |-> Append(m.result_axes, NPY_ITER_REDUCTION_AXIS(m.curr_axis)),
               curr_axis |-> m.curr_axis + 1]
         ELSE [result_axes |-> Append(m.result_axes, NPY_ITER_REDUCTION_AXIS(-1)),
               curr_axis |-> m.curr_axis + 1]
    ELSE [result_axes |-> Append(m.result_axes, PlainAxis(m.curr_axis)),
          curr_axis |-> m.curr_axis + 1]

\* one pass of the body of the for loop over i: m holds result_axes and
\* curr_axis
result_axes_step(axis_flags, keepdims, i, m) ==
    IF axis_flags[i + 1]
    THEN IF keepdims
         THEN [result_axes |-> Append(m.result_axes, NPY_ITER_REDUCTION_AXIS(m.curr_axis)),
               curr_axis |-> m.curr_axis + 1]
         ELSE [result_axes |-> Append(m.result_axes, NPY_ITER_REDUCTION_AXIS(-1)),
               curr_axis |-> m.curr_axis]
    ELSE [result_axes |-> Append(m.result_axes, PlainAxis(m.curr_axis)),
          curr_axis |-> m.curr_axis + 1]

RECURSIVE result_axes_loop(_, _, _, _, _)
\* for (int i = 0; i < PyArray_NDIM(operand); i++)
result_axes_loop(ndim, axis_flags, keepdims, i, m) ==
    IF i < ndim
    THEN result_axes_loop(ndim, axis_flags, keepdims, i + 1,
                          result_axes_step(axis_flags, keepdims, i, m))
    ELSE m

SetupResultAxes(ndim, axis_flags, keepdims) ==
    result_axes_loop(ndim, axis_flags, keepdims, 0,
                     [result_axes |-> <<>>, curr_axis |-> 0])

\* ------------------------------------------------------------------------
\* The traversal primitive (NpyIter) and the inner loop, as far as the
\* driver depends on them
\* ------------------------------------------------------------------------

\* operand axes mapped to output-axis ordinal o
AxesOf(result_axes, o) == {i \in 1..Len(result_axes) : result_axes[i].axis = o}

\* shape of operand 0 under the axes mapping
ResultShape(operand, result_axes, curr_axis) ==
    [o \in 1..curr_axis |->
        LET S == AxesOf(result_axes, o - 1) IN
        IF S = {} THEN 1
        ELSE LET i == CHOOSE i \in S : TRUE IN
             IF result_axes[i].reduction THEN 1 ELSE operand[i]]

\* index in operand 0 written while the cursor is at operand index idx
ResultIndex(idx, result_axes, curr_axis) ==
    [o \in 1..curr_axis |->
        LET S == AxesOf(result_axes, o - 1) IN
        IF S = {} THEN 0
        ELSE LET i == CHOOSE i \in S : TRUE IN
             IF result_axes[i].reduction THEN 0 ELSE idx[i]]

NpyIter_GetIterSize(operand) == PyArray_SIZE(operand)

\* NpyIter_IsFirstVisit(iter, 0): index 0 along every reduction axis
NpyIter_IsFirstVisit(idx, result_axes) ==
    \A i \in 1..Len(idx) : result_axes[i].reduction => idx[i] = 0

\* the where mask selects the elements at even C-order position
MaskAt(wheremask, k) == wheremask = NULL \/ k % 2 = 0

RECURSIVE reduce_loop(_, _, _, _, _, _, _, _)
\* the inner loop over elements k..upto-1 of the traversal, in C order: an
\* element on its first visit is skipped while skip_first_count lasts, a
\* masked-out element is skipped, any other is folded into its result element
reduce_loop(res, operand, result_axes, curr_axis, wheremask, skip_first_count, k, upto) ==
    IF k >= upto THEN res
    ELSE LET idx == Unravel(k, operand)
             j == ResultIndex(idx, result_axes, curr_axis)
         IN
         IF NpyIter_IsFirstVisit(idx, result_axes) /\ skip_first_count > 0
         THEN reduce_loop(res, operand, result_axes, curr_axis, wheremask,
                          skip_first_count - 1, k + 1, upto)
         ELSE IF ~MaskAt(wheremask, k) \/ j \notin DOMAIN res.data
         THEN reduce_loop(res, operand, result_axes, curr_axis, wheremask,
                          skip_first_count, k + 1, upto)
         ELSE reduce_loop([res EXCEPT !.data[j].elems = Append(@, OperandAt(k))],
                          operand, result_axes, curr_axis, wheremask,
                          skip_first_count, k + 1, upto)

\* ------------------------------------------------------------------------
\* PyUFunc_ReduceWrapper
\* ------------------------------------------------------------------------

VARIABLES
    operand,          \* shape of the operand
    out,              \* NULL or "out"
    wheremask,        \* NULL or "mask"
    axis_flags,
    reorderable,
    keepdims,
    identity,         \* Py_None or "identity"
    errormask,        \* TRUE: the raised floating-point flags are in the mask
    pc,               \* position in PyUFunc_ReduceWrapper
    result,           \* NULL, "out", "copy" or "alloc"
    skip_first_count,
    iter,             \* NULL, "live" or "released"
    result_axes,
    curr_axis,
    heap,             \* the arrays "out", "copy" (overlap copy of out), "alloc"
    fpstatus,         \* floating-point status flags raised
    pyerr,            \* the pending host error, "none" if there is none
    errmsg,           \* the ranks formatted into the out-rank error message
    loop_calls,       \* skip_first_count argument of every call of loop
    iter_steps,       \* inner buffers the cursor produced (iternext steps)
    dealloc_calls,    \* calls of NpyIter_Deallocate
    refs,             \* references the driver holds on result (Py_INCREF)
    fp_clears,        \* calls of npy_clear_floatstatus_barrier
    retval            \* "pending" until the call returns, then NULL or the array

inputs == <<operand, out, wheremask, axis_flags, reorderable, keepdims,
            identity, errormask>>
locals == <<result, skip_first_count, iter, result_axes, curr_axis>>
world == <<heap, fpstatus, pyerr, errmsg, loop_calls, iter_steps,
           dealloc_calls, refs, fp_clears>>
vars == <<inputs, pc, locals, world, retval>>

NoMsg == [found |-> -1, expected |-> -1, keepdims |-> FALSE]

\* rank and shape the result has for this operand, axis_flags and keepdims
ExpectedShape(shape, flags, kd) ==
    LET m == SetupResultAxes(Len(shape), flags, kd) IN
    ResultShape(shape, m.result_axes, m.curr_axis)

\* the out arrays tried: of the expected shape of either keepdims mode, with
\* one axis more, with one axis less
OutShapes(shape, flags) ==
    LET E == {ExpectedShape(shape, flags, kd) : kd \in BOOLEAN} IN
    E \cup {Append(e, 1) : e \in E} \cup {Tail(e) : e \in {x \in E : Len(x) > 0}}

Init ==
    /\ operand \in Shapes(MaxNdim)
    /\ axis_flags \in [1..Len(operand) -> BOOLEAN]
    /\ reorderable \in BOOLEAN
    /\ keepdims \in BOOLEAN
    /\ identity \in {Py_None, "identity"}
    /\ wheremask \in {NULL, "mask"}
    /\ errormask \in BOOLEAN
    /\ out \in {NULL, "out"}
    /\ \E oshape \in OutShapes(operand, axis_flags) :
          heap = [o \in {"out", "copy", "alloc"} |->
                     IF o = "out" /\ out # NULL THEN NewArray(oshape) ELSE NoArray]
    /\ pc = "check_reorderable"
    /\ result = NULL
    /\ skip_first_count = 0
    /\ iter = NULL
    /\ result_axes = <<>>
    /\ curr_axis = 0
    /\ fpstatus \in BOOLEAN
    /\ pyerr = "none"
    /\ errmsg = NoMsg
    /\ loop_calls = <<>>
    /\ iter_steps = 0
    /\ dealloc_calls = 0
    /\ refs = 0
    /\ fp_clears = 0
    /\ retval = "pending"

PyArray_NDIM(shape) == Len(shape)

\* return NULL (before the iterator exists)
ReturnNull(error) ==
    /\ pyerr' = error
    /\ retval' = NULL
    /\ pc' = "Failed"

\* goto fail
GotoFail(error) ==
    /\ pyerr' = error
    /\ pc' = "fail"

\* the reorderable check made only after the where check has passed
NotReorderableMultiAxis_AfterWhere ==
    /\ ~reorderable /\ count_axes(PyArray_NDIM(operand), axis_flags) > 1
    /\ ~(wheremask # NULL /\ identity = Py_None)

\* !reorderable && count_axes(PyArray_NDIM(operand), axis_flags) > 1
NotReorderableMultiAxis ==
    ~reorderable /\ count_axes(PyArray_NDIM(operand), axis_flags) > 1

\* "More than one axis means multiple orders are possible"
CheckReorderable ==
    /\ pc = "check_reorderable"
    /\ IF NotReorderableMultiAxis
       THEN ReturnNull("NonReorderableMultiAxisError")
       ELSE /\ pc' = "check_where"
            /\ UNCHANGED <<pyerr, retval>>
    /\ UNCHANGED <<inputs, locals, heap, fpstatus, errmsg, loop_calls,
                   iter_steps, dealloc_calls, refs, fp_clears>>

\* the where check with the identity test inverted
WhereWithoutInitial_Inverted == wheremask # NULL /\ identity # Py_None

\* wheremask != NULL && identity == Py_None
WhereWithoutInitial == wheremask # NULL /\ identity = Py_None

\* "Can only use where with an initial"
CheckWhere ==
    /\ pc = "check_where"
    /\ IF WhereWithoutInitial
       THEN ReturnNull("WhereWithoutIdentityError")
       ELSE /\ pc' = "setup_axes"
            /\ UNCHANGED <<pyerr, retval>>
    /\ UNCHANGED <<inputs, locals, heap, fpstatus, errmsg, loop_calls,
                   iter_steps, dealloc_calls, refs, fp_clears>>

\* the rank check comparing curr_axis with the operand's rank instead of out's
OutNdimMismatch_AgainstOperand(axes) ==
    out # NULL /\ axes.curr_axis # PyArray_NDIM(operand)

\* out != NULL and curr_axis != PyArray_NDIM(out)
OutNdimMismatch(axes) ==
    out # NULL /\ axes.curr_axis # PyArray_NDIM(heap[out].shape)

\* the result axes mapping and the check of out's number of dimensions.
\* (The goto fail on a where mask without descriptor, before it, is never
\* taken: an array always has a descriptor.)
SetupAxes ==
    /\ pc = "setup_axes"
    /\ LET m == SetupResultAxes(PyArray_NDIM(operand), axis_flags, keepdims) IN
       /\ result_axes' = m.result_axes
       /\ curr_axis' = m.curr_axis
       /\ IF OutNdimMismatch(m)
          THEN /\ errmsg' = [found |-> PyArray_NDIM(heap[out].shape),
                             expected |-> m.curr_axis,
                             keepdims |-> keepdims]
               /\ GotoFail("OutputShapeMismatchError")
          ELSE /\ pc' = "new_iter"
               /\ UNCHANGED <<pyerr, errmsg>>
    /\ UNCHANGED <<inputs, result, skip_first_count, iter, heap, fpstatus,
                   loop_calls, iter_steps, dealloc_calls, refs, fp_clears, retval>>

\* NpyIter_AdvancedNew over (out, operand[, wheremask]) with the axes mapping:
\* it fails on a casting error (~ok) or when out does not have the mapped
\* shape; otherwise operand 0 of the cursor is out itself, a copy of out made
\* because out overlaps the operand, or a newly allocated array
NpyIter_AdvancedNew(ok, overlap) ==
    LET shape == ResultShape(operand, result_axes, curr_axis) IN
    IF ~ok
    THEN [iter |-> NULL, error |-> "CastingError", op0 |-> NULL, heap |-> heap]
    ELSE IF out # NULL /\ heap[out].shape # shape
    THEN [iter |-> NULL, error |-> "OutputBroadcastError", op0 |-> NULL, heap |-> heap]
    ELSE IF out = NULL
    THEN [iter |-> "live", error |-> "none", op0 |-> "alloc",
          heap |-> [heap EXCEPT !["alloc"] = NewArray(shape)]]
    ELSE IF overlap
    THEN [iter |-> "live", error |-> "none", op0 |-> "copy",
          heap |-> [heap EXCEPT !["copy"] = heap[out]]]
    ELSE [iter |-> "live", error |-> "none", op0 |-> "out", heap |-> heap]

\* NpyIter_Deallocate: a copy made for overlap is written back to out unless
\* an error is pending; the write-back may fail (~ok)
NpyIter_Deallocate(ok) ==
    IF heap["copy"] # NoArray /\ pyerr = "none" /\ ok
    THEN [heap EXCEPT !["out"] = heap["copy"]]
    ELSE heap

\* iter = NpyIter_AdvancedNew(...); result = NpyIter_GetOperandArray(iter)[0];
\* npy_clear_floatstatus_barrier
NewIter ==
    /\ pc = "new_iter"
    /\ \E ok \in BOOLEAN, overlap \in BOOLEAN :
          LET it == NpyIter_AdvancedNew(ok, overlap) IN
          /\ iter' = it.iter
          /\ heap' = it.heap
          /\ IF it.iter = NULL
             THEN /\ GotoFail(it.error)
                  /\ UNCHANGED <<result, fpstatus, fp_clears>>
             ELSE /\ result' = it.op0
                  /\ fpstatus' = FALSE
                  /\ fp_clears' = fp_clears + 1
                  /\ pc' = "seed"
                  /\ UNCHANGED pyerr
    /\ UNCHANGED <<inputs, skip_first_count, result_axes, curr_axis, errmsg,
                   loop_calls, iter_steps, dealloc_calls, refs, retval>>

\* the seeding branch taken the wrong way round
HasIdentity_Inverted == identity = Py_None

\* identity != Py_None
HasIdentity == identity # Py_None

\* "Initialize the result to the reduction unit if possible, otherwise copy
\* the initial values"
Seed ==
    /\ pc = "seed"
    /\ \E ok1 \in BOOLEAN, ok2 \in BOOLEAN, fp \in BOOLEAN :
          IF HasIdentity
          THEN IF ~ok1
               THEN /\ GotoFail("FillError")
                    /\ UNCHANGED <<heap, skip_first_count, fpstatus>>
               ELSE /\ heap' = [heap EXCEPT ![result] = PyArray_FillWithScalar(@)]
                    /\ fpstatus' = fp
                    /\ pc' = "reset"
                    /\ UNCHANGED <<skip_first_count, pyerr>>
          ELSE LET r == PyArray_CopyInitialReduceValues(
                            heap[result], operand, axis_flags, keepdims, ok1, ok2) IN
               /\ skip_first_count' = r.ret
               /\ heap' = [heap EXCEPT ![result] = r.result]
               /\ IF r.ret < 0
                  THEN /\ GotoFail(r.error)
                       /\ UNCHANGED fpstatus
                  ELSE /\ fpstatus' = fp
                       /\ pc' = "reset"
                       /\ UNCHANGED pyerr
    /\ UNCHANGED <<inputs, result, iter, result_axes, curr_axis, errmsg,
                   loop_calls, iter_steps, dealloc_calls, refs, fp_clears, retval>>

\* NpyIter_Reset(iter, NULL)
Reset ==
    /\ pc = "reset"
    /\ \E ok \in BOOLEAN :
          IF ok
          THEN pc' = "iterate" /\ UNCHANGED pyerr
          ELSE GotoFail("ResetError")
    /\ UNCHANGED <<inputs, locals, heap, fpstatus, errmsg, loop_calls,
                   iter_steps, dealloc_calls, refs, fp_clears, retval>>

Min(a, b) == IF a < b THEN a ELSE b

Max(a, b) == IF a > b THEN a ELSE b

\* the loop entered without the test of the iteration size
IterSizeNonZero_Always == TRUE

\* NpyIter_GetIterSize(iter) != 0
IterSizeNonZero == NpyIter_GetIterSize(operand) # 0

\* if (NpyIter_GetIterSize(iter) != 0) { iternext = ...; loop(...) }
\* The loop steps the cursor itself, through iternext, over nsteps inner
\* buffers; it returns an error (status "error"), or succeeds with a host
\* error left pending ("pending") or none ("ok"), and may raise
\* floating-point flags (fp).
Iterate ==
    /\ pc = "iterate"
    /\ LET size == NpyIter_GetIterSize(operand) IN
       IF IterSizeNonZero
       THEN \E iternext_ok \in BOOLEAN, status \in {"ok", "error", "pending"},
               fp \in BOOLEAN, nsteps \in 1..Max(1, Min(size, MaxBuffers)) :
               IF ~iternext_ok
               THEN /\ GotoFail("TraversalError")
                    /\ UNCHANGED <<heap, fpstatus, loop_calls, iter_steps>>
               ELSE /\ loop_calls' = Append(loop_calls, skip_first_count)
                    /\ iter_steps' = nsteps
                    /\ fpstatus' = (fpstatus \/ fp)
                    /\ \E upto \in (IF status = "error" THEN {0, Max(0, size - 1)} ELSE {size}) :
                          heap' = [heap EXCEPT ![result] =
                                      reduce_loop(@, operand, result_axes, curr_axis,
                                                  wheremask, skip_first_count, 0, upto)]
                    /\ IF status = "error"
                       THEN GotoFail("AccumulationError")
                       ELSE /\ pyerr' = (IF status = "pending" THEN "HostError" ELSE pyerr)
                            /\ pc' = "check_errors"
       ELSE /\ pc' = "check_errors"
            /\ UNCHANGED <<heap, fpstatus, pyerr, loop_calls, iter_steps>>
    /\ UNCHANGED <<inputs, locals, errmsg, dealloc_calls, refs, fp_clears, retval>>

\* _check_ufunc_fperr(errormask, NULL, "reduce") < 0
check_ufunc_fperr == fpstatus /\ errormask

\* PyErr_Occurred()
PyErr_Occurred == pyerr # "none"

\* the check after the loop without the floating-point status check
ErrorsOccurred_HostOnly == PyErr_Occurred

\* the check after the loop without the test for a pending host error
ErrorsOccurred_FpOnly == check_ufunc_fperr

\* PyErr_Occurred() || _check_ufunc_fperr(errormask, NULL, "reduce") < 0
ErrorsOccurred == PyErr_Occurred \/ check_ufunc_fperr

\* "Check whether any errors occurred during the loop"
CheckErrors ==
    /\ pc = "check_errors"
    /\ IF ErrorsOccurred
       THEN GotoFail(IF PyErr_Occurred THEN pyerr ELSE "FloatingPointError")
       ELSE pc' = "finish" /\ UNCHANGED pyerr
    /\ UNCHANGED <<inputs, locals, heap, fpstatus, errmsg, loop_calls,
                   iter_steps, dealloc_calls, refs, fp_clears, retval>>

\* if (out != NULL) result = out; Py_INCREF(result);
\* if (!NpyIter_Deallocate(iter)) { Py_DECREF(result); return NULL; }
\* return result;
\* the return without the substitution of out
ReturnedArray_NoSubstitution == result

\* if (out != NULL) { result = out; }
ReturnedArray == IF out # NULL THEN out ELSE result

Finish ==
    /\ pc = "finish"
    /\ result' = ReturnedArray
    /\ \E ok \in BOOLEAN :
          /\ heap' = NpyIter_Deallocate(ok)
          /\ dealloc_calls' = dealloc_calls + 1
          /\ iter' = "released"
          /\ IF ok
             THEN /\ refs' = refs + 1
                  /\ retval' = result'
                  /\ pc' = "Done"
                  /\ UNCHANGED pyerr
             ELSE /\ refs' = refs + 1 - 1
                  /\ retval' = NULL
                  /\ pyerr' = "ResourceReleaseError"
                  /\ pc' = "Failed"
    /\ UNCHANGED <<inputs, skip_first_count, result_axes, curr_axis, fpstatus,
                   errmsg, loop_calls, iter_steps, fp_clears>>

\* the fail path without the release of the cursor
IterCreated_Never == FALSE

\* iter != NULL
IterCreated == iter # NULL

\* fail: if (iter != NULL) NpyIter_Deallocate(iter); return NULL;
Fail ==
    /\ pc = "fail"
    /\ IF IterCreated
       THEN /\ heap' = NpyIter_Deallocate(TRUE)
            /\ dealloc_calls' = dealloc_calls + 1
            /\ iter' = "released"
       ELSE UNCHANGED <<heap, dealloc_calls, iter>>
    /\ retval' = NULL
    /\ pc' = "Failed"
    /\ UNCHANGED <<inputs, result, skip_first_count, result_axes, curr_axis,
                   fpstatus, pyerr, errmsg, loop_calls, iter_steps, refs, fp_clears>>

Next ==
    \/ CheckReorderable
    \/ CheckWhere
    \/ SetupAxes
    \/ NewIter
    \/ Seed
    \/ Reset
    \/ Iterate
    \/ CheckErrors
    \/ Finish
    \/ Fail

Spec == Init /\ [][Next]_vars

\* ------------------------------------------------------------------------
\* Properties
\* ------------------------------------------------------------------------

Flagged == {i \in 1..Len(operand) : axis_flags[i]}
NFlagged == Cardinality(Flagged)
HasEmptyReducedAxis == \E i \in Flagged : operand[i] = 0
Terminated == pc \in {"Done", "Failed"}
PastSeeding == pc \in {"reset", "iterate", "check_errors", "finish", "Done"}
IdentityValue == [init |-> "identity", elems |-> <<>>]

\* C1 as stated: every call with no identity on an operand with a zero-extent
\* reduced axis fails with EmptyReductionError and returns no result.
C1_AsStated ==
    (Terminated /\ identity = Py_None /\ HasEmptyReducedAxis)
        => (pc = "Failed" /\ pyerr = "EmptyReductionError" /\ retval = NULL)

\* C1 amended: a call with no identity on an operand with a zero-extent
\* reduced axis never gets past seeding, never invokes the callback and
\* returns no result; whenever the traversal cursor was constructed (the
\* checks before seeding passed) the error is EmptyReductionError, otherwise
\* it is the error of the earlier check or of the cursor construction.
C1_EmptyReductionFails ==
    (identity = Py_None /\ HasEmptyReducedAxis) =>
        /\ ~PastSeeding
        /\ loop_calls = <<>>
        /\ Terminated => retval = NULL
        /\ (pc \in {"fail", "Failed"} /\ iter # NULL) => pyerr = "EmptyReductionError"
        /\ (pc \in {"fail", "Failed"} /\ iter = NULL) =>
              pyerr \in {"NonReorderableMultiAxisError", "WhereWithoutIdentityError",
                         "OutputShapeMismatchError", "CastingError",
                         "OutputBroadcastError"}

C1_Witness ==
    /\ pc = "Failed"
    /\ identity = Py_None
    /\ HasEmptyReducedAxis
    /\ iter = "released"
    /\ pyerr = "EmptyReductionError"
    /\ retval = NULL

\* C2 as stated: every call with an identity on an operand with a zero-extent
\* reduced axis succeeds, without invoking the callback, and returns a result
\* whose elements all equal the identity.
C2_AsStated ==
    (Terminated /\ identity # Py_None /\ HasEmptyReducedAxis) =>
        /\ pc = "Done"
        /\ loop_calls = <<>>
        /\ retval # NULL
        /\ \A idx \in DOMAIN heap[retval].data : heap[retval].data[idx] = IdentityValue

\* C2 amended: a call with an identity on an operand with a zero-extent
\* reduced axis never raises EmptyReductionError and never invokes the
\* callback (the iteration size is zero); it fails only through another check
\* or a failing collaborator, and when it succeeds every element of the
\* returned result equals the identity.
C2_IdentityOnEmpty ==
    (identity # Py_None /\ HasEmptyReducedAxis) =>
        /\ NpyIter_GetIterSize(operand) = 0
        /\ loop_calls = <<>>
        /\ iter_steps = 0
        /\ pyerr \in {"none", "NonReorderableMultiAxisError", "OutputShapeMismatchError",
                      "CastingError", "OutputBroadcastError", "FillError",
                      "ResetError", "FloatingPointError", "ResourceReleaseError"}
        /\ pc = "Done" =>
              /\ retval \in {"out", "alloc"}
              /\ heap[retval].shape = ExpectedShape(operand, axis_flags, keepdims)
              /\ \A idx \in DOMAIN heap[retval].data :
                    heap[retval].data[idx] = IdentityValue

\* a successful identity-seeded reduction of an empty axis whose result has
\* elements, in a caller-supplied out bound through an overlap copy
C2_Witness ==
    /\ pc = "Done"
    /\ identity # Py_None
    /\ HasEmptyReducedAxis
    /\ retval = "out"
    /\ heap["copy"] # NoArray
    /\ DOMAIN heap[retval].data # {}
    /\ \A idx \in DOMAIN heap[retval].data : heap[retval].data[idx] = IdentityValue

\* C3: a call with reorderable = false and more than one flagged axis fails
\* with NonReorderableMultiAxisError at the first check, whatever the other
\* arguments are, and returns no result.
C3_NonReorderableMultiAxis ==
    (~reorderable /\ NFlagged > 1) =>
        /\ pc \in {"check_reorderable", "Failed"}
        /\ pc = "Failed" =>
              /\ pyerr = "NonReorderableMultiAxisError"
              /\ retval = NULL
              /\ iter = NULL

C3_Witness ==
    /\ pc = "Failed"
    /\ ~reorderable
    /\ NFlagged > 1
    /\ pyerr = "NonReorderableMultiAxisError"
    /\ wheremask # NULL
    /\ identity = Py_None
    /\ out # NULL

\* C4 as stated: every call with a where mask and no identity fails with
\* WhereWithoutIdentityError, for every combination of the other arguments.
C4_AsStated ==
    (Terminated /\ wheremask # NULL /\ identity = Py_None)
        => (pc = "Failed" /\ pyerr = "WhereWithoutIdentityError")

\* C4 amended: a call with a where mask and no identity fails before the axes
\* mapping is built and returns no result; the error is
\* WhereWithoutIdentityError, except that a non-reorderable operation with
\* more than one flagged axis fails with NonReorderableMultiAxisError first.
C4_WhereWithoutIdentity ==
    (wheremask # NULL /\ identity = Py_None) =>
        /\ pc \in {"check_reorderable", "check_where", "Failed"}
        /\ pc = "Failed" =>
              /\ retval = NULL
              /\ iter = NULL
              /\ pyerr = IF ~reorderable /\ NFlagged > 1
                         THEN "NonReorderableMultiAxisError"
                         ELSE "WhereWithoutIdentityError"

C4_Witness ==
    /\ pc = "Failed"
    /\ wheremask # NULL
    /\ identity = Py_None
    /\ pyerr = "WhereWithoutIdentityError"
    /\ ~reorderable
    /\ NFlagged = 1

\* rank of the result for keepdims mode kd: the operand's rank with keepdims,
\* the operand's rank minus the number of flagged axes without
ExpectedNdim(kd) == IF kd THEN Len(operand) ELSE Len(operand) - NFlagged

OutNdim == Len(heap["out"].shape)

OutRankOffByOne ==
    /\ out # NULL
    /\ \/ OutNdim = ExpectedNdim(keepdims) + 1
       \/ OutNdim = ExpectedNdim(keepdims) - 1

\* C5 as stated: every call with an out whose rank is off by one from the
\* expected rank fails with OutputShapeMismatchError, and the expected rank
\* for keepdims=true differs from the one for keepdims=false on the same
\* operand and axis_flags.
C5_AsStated ==
    (Terminated /\ OutRankOffByOne) =>
        /\ pc = "Failed"
        /\ pyerr = "OutputShapeMismatchError"
        /\ SetupResultAxes(Len(operand), axis_flags, TRUE).curr_axis
              # SetupResultAxes(Len(operand), axis_flags, FALSE).curr_axis

\* C5 amended: a call with an out whose rank is off by one from the expected
\* rank fails in both keepdims modes before the traversal cursor is built and
\* returns no result; the error is OutputShapeMismatchError unless the
\* non-reorderable or the where-mask check fails first; the message reports
\* out's rank and the expected rank (the operand's rank with keepdims, that
\* rank minus the number of flagged axes without), and the two expected ranks
\* differ exactly when at least one axis is flagged.
C5_OutRankMismatch ==
    OutRankOffByOne =>
        /\ pc \in {"check_reorderable", "check_where", "setup_axes", "fail", "Failed"}
        /\ iter = NULL
        /\ pc = "Failed" => retval = NULL
        /\ pc \in {"fail", "Failed"} =>
              pyerr = IF ~reorderable /\ NFlagged > 1
                      THEN "NonReorderableMultiAxisError"
                      ELSE IF wheremask # NULL /\ identity = Py_None
                      THEN "WhereWithoutIdentityError"
                      ELSE "OutputShapeMismatchError"
        /\ pyerr = "OutputShapeMismatchError" =>
              errmsg = [found |-> OutNdim,
                        expected |-> ExpectedNdim(keepdims),
                        keepdims |-> keepdims]
        /\ (SetupResultAxes(Len(operand), axis_flags, TRUE).curr_axis
               # SetupResultAxes(Len(operand), axis_flags, FALSE).curr_axis)
              <=> (NFlagged > 0)
        /\ SetupResultAxes(Len(operand), axis_flags, ~keepdims).curr_axis
              = ExpectedNdim(~keepdims)

\* the rank error reported with keepdims on an operand with flagged axes
C5_Witness ==
    /\ pc = "Failed"
    /\ OutRankOffByOne
    /\ keepdims
    /\ NFlagged > 0
    /\ pyerr = "OutputShapeMismatchError"
    /\ errmsg.expected = Len(operand)
    /\ errmsg.found = Len(operand) - 1

\* C6: a result object is returned only when the call ends in Done; on every
\* failure path the call returns NULL, holds no reference on the result, and
\* an error pending at return goes with no result.
C6_NoResultOnFailure ==
    /\ pc = "Failed" => (retval = NULL /\ refs = 0 /\ pyerr # "none")
    /\ pc = "Done" => (retval \in {"out", "alloc"} /\ refs = 1 /\ pyerr = "none")
    /\ ~Terminated => retval = "pending"
    /\ pc = "fail" => pyerr # "none"

\* a failure after the result array was created and written: a host error
\* left pending by a loop that reported success
C6_Witness ==
    /\ pc = "Failed"
    /\ retval = NULL
    /\ result = "alloc"
    /\ loop_calls # <<>>
    /\ pyerr = "HostError"

\* C7: on success the returned object is out itself when out was supplied,
\* also when the cursor bound a copy of out as operand 0, and the array the
\* cursor allocated when out is absent.
C7_ReturnsOut ==
    pc = "Done" =>
        /\ out # NULL => retval = "out"
        /\ out = NULL => (retval = "alloc" /\ heap["alloc"] # NoArray)
        /\ retval # "copy"

\* success with a caller-supplied out that the cursor bound through a copy
C7_Witness ==
    /\ pc = "Done"
    /\ out # NULL
    /\ heap["copy"] # NoArray
    /\ retval = "out"
    /\ loop_calls # <<>>

\* position (1-based) of the non-flagged axis i among the non-flagged axes
KeptBefore(i) == Cardinality({k \in 1..i : ~axis_flags[k]})

\* the non-flagged axis at position o among the non-flagged axes
KeptAxis(o) == CHOOSE i \in 1..Len(operand) : ~axis_flags[i] /\ KeptBefore(i) = o

\* arr, an array with one axis per operand axis, without its flagged axes
\* (which must have extent 1)
Squeeze(arr) ==
    LET shape == [o \in 1..(Len(operand) - NFlagged) |-> arr.shape[KeptAxis(o)]] IN
    [shape |-> shape,
     data |-> [j \in Indices(shape) |->
                  arr.data[[i \in 1..Len(operand) |->
                              IF axis_flags[i] THEN 0 ELSE j[KeptBefore(i)]]]]]

\* the seeded result of a call on the current operand, axis_flags, identity and
\* where mask in keepdims mode kd, into a newly allocated result, when no
\* collaborator fails
SeededResult(kd) ==
    LET m == SetupResultAxes(Len(operand), axis_flags, kd)
        a0 == NewArray(ResultShape(operand, m.result_axes, m.curr_axis))
    IN IF HasIdentity
       THEN [ret |-> 0, result |-> PyArray_FillWithScalar(a0)]
       ELSE PyArray_CopyInitialReduceValues(a0, operand, axis_flags, kd, TRUE, TRUE)

\* the final result of that call
ReduceResult(kd) ==
    LET m == SetupResultAxes(Len(operand), axis_flags, kd)
        seeded == SeededResult(kd)
    IN IF IterSizeNonZero
       THEN reduce_loop(seeded.result, operand, m.result_axes, m.curr_axis,
                        wheremask, seeded.ret, 0, NpyIter_GetIterSize(operand))
       ELSE seeded.result

\* C8: for the same operand, axis_flags, identity, where mask and callback,
\* the result with keepdims=true, squeezed of its reduced axes, has the shape
\* and the element values of the result with keepdims=false; so has the seeded
\* first slice; and a non-reduced axis maps without keepdims to its keepdims
\* ordinal less the number of reduced axes before it.
C8_KeepdimsSqueeze ==
    /\ pc = "reset" => heap[result] = SeededResult(keepdims).result
    /\ pc = "reset" =>
          Squeeze(SeededResult(TRUE).result) = SeededResult(FALSE).result
    /\ pc = "Done" => heap[retval] = ReduceResult(keepdims)
    /\ pc = "Done" => Squeeze(ReduceResult(TRUE)) = ReduceResult(FALSE)
    /\ pc = "new_iter" =>
          LET kept == SetupResultAxes(Len(operand), axis_flags, TRUE).result_axes
              dropped == SetupResultAxes(Len(operand), axis_flags, FALSE).result_axes
          IN /\ result_axes = (IF keepdims THEN kept ELSE dropped)
             /\ \A i \in 1..Len(operand) : ~axis_flags[i] =>
                   /\ ~kept[i].reduction /\ ~dropped[i].reduction
                   /\ kept[i].axis = i - 1
                   /\ dropped[i].axis = KeptBefore(i) - 1

\* a successful no-identity reduction with keepdims of a two-axis operand with
\* one reduced axis of extent 2, whose squeezed result has several elements
\* into which the loop folded operand elements
C8_Witness ==
    /\ pc = "Done"
    /\ keepdims
    /\ identity = Py_None
    /\ NFlagged = 1
    /\ Len(operand) = 2
    /\ Cardinality(DOMAIN ReduceResult(FALSE).data) > 1
    /\ \E j \in DOMAIN ReduceResult(FALSE).data : Len(ReduceResult(FALSE).data[j].elems) = 2
    /\ Squeeze(heap[retval]) = ReduceResult(FALSE)
    /\ heap[retval].shape # ReduceResult(FALSE).shape

\* a no-identity reduction over a single flagged axis, of extent 1
SingleUnitAxis ==
    /\ identity = Py_None
    /\ NFlagged = 1
    /\ \A i \in Flagged : operand[i] = 1

\* index of the result element that holds operand element idx once the
\* reduced axis of extent 1 is kept (keepdims) or squeezed out
Reshaped(idx) ==
    IF keepdims THEN idx
    ELSE [o \in 1..(Len(operand) - NFlagged) |-> idx[KeptAxis(o)]]

\* arr holds exactly the operand's elements, reshaped/squeezed per keepdims
EqualsOperandReshaped(arr) ==
    /\ arr.shape = (IF keepdims THEN operand
                    ELSE [o \in 1..(Len(operand) - NFlagged) |-> operand[KeptAxis(o)]])
    /\ Cardinality(DOMAIN arr.data) = PyArray_SIZE(operand)
    /\ \A k \in 0..(PyArray_SIZE(operand) - 1) :
          arr.data[Reshaped(Unravel(k, operand))]
             = [init |-> "copy", elems |-> <<OperandAt(k)>>]

\* C9 as stated: for a no-identity reduction over a single flagged axis of
\* extent 1, after seeding the result equals the operand reshaped/squeezed
\* per keepdims, and the skip_first_count returned by the seeder and passed
\* to the callback is 0.
C9_AsStated ==
    (SingleUnitAxis /\ PastSeeding) =>
        /\ EqualsOperandReshaped(heap[result])
        /\ skip_first_count = 0
        /\ \A n \in 1..Len(loop_calls) : loop_calls[n] = 0

\* C9 amended: for a no-identity reduction over a single flagged axis of
\* extent 1, after seeding the result equals the operand reshaped/squeezed
\* per keepdims; the skip_first_count returned by the seeder and passed to
\* the callback is the number of elements of the operand (the product of the
\* extents of the non-reduced axes), not 0 unless the operand is empty; with
\* it the callback skips every element, so the result is still the reshaped
\* operand after the loop.
C9_SeedIsWholeAnswer ==
    (SingleUnitAxis /\ PastSeeding) =>
        /\ EqualsOperandReshaped(heap[result])
        /\ skip_first_count = PyArray_SIZE(operand)
        /\ \A n \in 1..Len(loop_calls) : loop_calls[n] = PyArray_SIZE(operand)
        /\ pc = "Done" => EqualsOperandReshaped(heap[retval])

\* the loop was handed a non-zero skip_first_count on a two-element operand
\* reduced over its axis of extent 1
C9_Witness ==
    /\ pc = "Done"
    /\ SingleUnitAxis
    /\ operand = <<2, 1>>
    /\ loop_calls = <<2>>
    /\ EqualsOperandReshaped(heap[retval])

AfterLoop == pc \in {"check_errors", "finish", "Done"}

\* C10 as stated: with a non-zero iteration size the driver invokes the
\* callback once for each step of the cursor, with skip_first_count on the
\* first invocation and zero on the later ones; with a zero iteration size it
\* invokes it zero times.
C10_AsStated ==
    AfterLoop =>
        /\ Len(loop_calls) = iter_steps
        /\ \A n \in 1..Len(loop_calls) :
              loop_calls[n] = IF n = 1 THEN skip_first_count ELSE 0

\* C10 amended: with a non-zero iteration size the driver invokes the
\* callback exactly once, handing it the cursor, the cursor's advance function
\* and skip_first_count; the callback itself steps the cursor over the inner
\* buffers (one or more). With a zero iteration size the callback is invoked
\* zero times and the cursor is not stepped.
C10_LoopInvokedOnce ==
    /\ Len(loop_calls) <= 1
    /\ \A n \in 1..Len(loop_calls) : loop_calls[n] = skip_first_count
    /\ NpyIter_GetIterSize(operand) = 0 => (loop_calls = <<>> /\ iter_steps = 0)
    /\ (AfterLoop /\ NpyIter_GetIterSize(operand) # 0) =>
          (Len(loop_calls) = 1 /\ iter_steps >= 1)
    /\ ~(AfterLoop \/ pc \in {"fail", "Failed"}) => loop_calls = <<>>

\* one invocation of the callback that stepped the cursor over two buffers
C10_Witness ==
    /\ pc = "Done"
    /\ Len(loop_calls) = 1
    /\ iter_steps = 2
    /\ loop_calls[1] > 0

\* no element of array arr has been written
Unwritten(arr) == \A idx \in DOMAIN arr.data : arr.data[idx] = Uninit

\* no array has been written, no iteration has happened
NothingWritten ==
    /\ \A o \in DOMAIN heap : Unwritten(heap[o])
    /\ loop_calls = <<>>
    /\ iter_steps = 0

\* no cursor was constructed and no result array was allocated or copied
NothingConstructed ==
    /\ iter = NULL
    /\ result = NULL
    /\ heap["alloc"] = NoArray
    /\ heap["copy"] = NoArray

\* C11 as stated: each of the four structural errors is raised before the
\* traversal cursor is constructed, before any result array is allocated and
\* before any iteration or write to the result.
C11_AsStated ==
    pyerr \in {"NonReorderableMultiAxisError", "WhereWithoutIdentityError",
               "OutputShapeMismatchError", "EmptyReductionError"}
        => (NothingConstructed /\ NothingWritten)

\* C11 amended: NonReorderableMultiAxisError, WhereWithoutIdentityError and
\* OutputShapeMismatchError are raised before the traversal cursor is
\* constructed, before any result array is allocated and before any iteration
\* or write; EmptyReductionError is raised during seeding, after the cursor
\* was constructed (and the result allocated when out is absent), but before
\* any iteration or write to the result.
C11_StructuralErrorsEarly ==
    /\ pyerr \in {"NonReorderableMultiAxisError", "WhereWithoutIdentityError",
                  "OutputShapeMismatchError"}
          => (NothingConstructed /\ NothingWritten)
    /\ pyerr = "EmptyReductionError" =>
          /\ iter # NULL
          /\ result # NULL
          /\ out = NULL => heap["alloc"] # NoArray
          /\ NothingWritten

\* EmptyReductionError raised with the cursor live and a result array
\* allocated that has elements
C11_Witness ==
    /\ pc = "fail"
    /\ pyerr = "EmptyReductionError"
    /\ iter = "live"
    /\ result = "alloc"
    /\ DOMAIN heap["alloc"].data # {}
    /\ NothingWritten

\* one of the three precondition checks fails on the inputs
PreconditionFails ==
    \/ ~reorderable /\ NFlagged > 1
    \/ wheremask # NULL /\ identity = Py_None
    \/ out # NULL /\ OutNdim # ExpectedNdim(keepdims)

\* C12: when the call fails one of the three precondition checks, it fails at
\* that check and nothing has been mutated: out's contents are unchanged, no
\* traversal cursor was created or released, no result array was allocated,
\* the floating-point status was not cleared and the callback was not invoked.
C12_PreconditionFailureMutatesNothing ==
    PreconditionFails =>
        /\ pc \in {"check_reorderable", "check_where", "setup_axes", "fail", "Failed"}
        /\ NothingConstructed
        /\ NothingWritten
        /\ dealloc_calls = 0
        /\ fp_clears = 0
        /\ refs = 0
        /\ skip_first_count = 0
        /\ pc \in {"fail", "Failed"} =>
              pyerr \in {"NonReorderableMultiAxisError", "WhereWithoutIdentityError",
                         "OutputShapeMismatchError"}

\* the out rank check failed on an out array that has elements, with the
\* floating-point flags of earlier work still raised
C12_Witness ==
    /\ pc = "Failed"
    /\ pyerr = "OutputShapeMismatchError"
    /\ DOMAIN heap["out"].data # {}
    /\ Unwritten(heap["out"])
    /\ fpstatus
    /\ fp_clears = 0
    /\ iter = NULL

\* C13: after the loop, a pending host error or raised floating-point flags
\* that are in the caller's error mask make the call fail and return no
\* result, each of the two alone, although the callback reported success, and
\* also when the iteration size was zero and the callback was skipped: the
\* call gets past the check only with neither of them.
C13_FinalErrorCheck ==
    /\ pc \in {"finish", "Done"} => (pyerr = "none" /\ ~(fpstatus /\ errormask))
    /\ pyerr = "FloatingPointError" =>
          (pc \in {"fail", "Failed"} /\ fpstatus /\ errormask)
    /\ pyerr = "HostError" =>
          (pc \in {"check_errors", "fail", "Failed"} /\ loop_calls # <<>>)
    /\ (pc = "Failed" /\ pyerr \in {"HostError", "FloatingPointError"}) =>
          (retval = NULL /\ refs = 0 /\ iter = "released")

\* the floating-point check failing a call whose iteration size was zero and
\* whose callback was skipped, with no host error pending
C13_Witness ==
    /\ pc = "Failed"
    /\ pyerr = "FloatingPointError"
    /\ NpyIter_GetIterSize(operand) = 0
    /\ loop_calls = <<>>
    /\ result # NULL
    /\ retval = NULL

\* C14: a cursor that was created is released exactly once before the call
\* returns and never twice; when none was created no release is attempted;
\* when the release on the success path fails, the reference taken on the
\* result is dropped again and the call returns no result.
C14_CursorReleasedOnce ==
    /\ dealloc_calls <= 1
    /\ iter = NULL => dealloc_calls = 0
    /\ iter = "live" => (dealloc_calls = 0 /\ ~Terminated)
    /\ iter = "released" => dealloc_calls = 1
    /\ Terminated => dealloc_calls = (IF iter = NULL THEN 0 ELSE 1)
    /\ pyerr = "ResourceReleaseError" =>
          (pc = "Failed" /\ retval = NULL /\ refs = 0 /\ iter = "released")
    /\ refs = (IF pc = "Done" THEN 1 ELSE 0)

\* the release failing on the success path, after the loop ran
C14_Witness ==
    /\ pc = "Failed"
    /\ pyerr = "ResourceReleaseError"
    /\ dealloc_calls = 1
    /\ refs = 0
    /\ loop_calls # <<>>
    /\ result # NULL
    /\ retval = NULL

\* ------------------------------------------------------------------------
\* C15
\* ------------------------------------------------------------------------

\* A call runs to completion: the steps of PyUFunc_ReduceWrapper are taken
\* until it returns
FairSpec == Spec /\ WF_vars(Next)

\* the phases of a call, in order
Phases == <<"Validating", "Planning", "Seeding", "Iterating", "Finalizing">>

\* the phase a position of the wrapper belongs to
PhaseOf(p) ==
    CASE p \in {"check_reorderable", "check_where"} -> "Validating"
      [] p \in {"setup_axes", "new_iter"} -> "Planning"
      [] p = "seed" -> "Seeding"
      [] p \in {"reset", "iterate"} -> "Iterating"
      [] p \in {"check_errors", "finish"} -> "Finalizing"
      [] p \in {"fail", "Failed"} -> "Failed"
      [] p = "Done" -> "Done"

\* the positions of the wrapper in program order
ProgramOrder ==
    <<"check_reorderable", "check_where", "setup_axes", "new_iter", "seed",
      "reset", "iterate", "check_errors", "finish", "fail", "Done", "Failed">>

Position(p) == CHOOSE k \in DOMAIN ProgramOrder : ProgramOrder[k] = p

\* b is the phase that follows a in the order of the phases
FollowsPhase(a, b) ==
    \/ \E k \in 1..(Len(Phases) - 1) : a = Phases[k] /\ b = Phases[k + 1]
    \/ a = "Finalizing" /\ b = "Done"

\* every element of the cursor's result operand holds a value
ResultSeeded ==
    /\ result # NULL
    /\ \A idx \in DOMAIN heap[result].data : heap[result].data[idx] # Uninit

\* one step of a call keeps the order of the phases
C15_Step ==
    /\ ~Terminated
    /\ Position(pc') > Position(pc)
    /\ \/ PhaseOf(pc') = PhaseOf(pc)
       \/ FollowsPhase(PhaseOf(pc), PhaseOf(pc'))
       \/ PhaseOf(pc') = "Failed"
    /\ pc' = "Done" => PhaseOf(pc) = "Finalizing"
    /\ (pyerr' # "none" /\ PhaseOf(pc') # "Failed") =>
          (pc = "iterate" /\ pc' = "check_errors")
    /\ pc' = "reset" => (pc = "seed" /\ ResultSeeded')
    /\ (pc = "reset" \/ loop_calls' # loop_calls) => (ResultSeeded /\ pyerr = "none")
    /\ loop_calls' # loop_calls => pc = "iterate"

\* C15: every call ends in exactly one of Done and Failed and stays there; the
\* phases Validating, Planning, Seeding, Iterating, Finalizing are passed in
\* that order, no position is visited twice, Done is entered only from
\* Finalizing, a failing step leads to Failed and to no later phase (an error
\* the callback leaves pending while reporting success fails the call in
\* Finalizing), and the cursor is reset and the callback invoked only on a
\* seeded result
C15_PhaseOrder ==
    /\ [][C15_Step]_vars
    /\ [](Terminated \/ ENABLED Next)
    /\ <>[](pc = "Done") \/ <>[](pc = "Failed")
    /\ [](pc \in {"finish", "Done"} => pyerr = "none")
    /\ [](pc = "Done" => retval # NULL)
    /\ [](pc = "Failed" => retval = NULL)

\* a call that was seeded by copying, ran the callback and ended in Done
C15_Witness ==
    /\ pc = "Done"
    /\ identity = Py_None
    /\ skip_first_count > 0
    /\ Len(loop_calls) = 1
    /\ ResultSeeded
    /\ NFlagged > 0

\* ------------------------------------------------------------------------
\* C16: the result axes mapping on its own, for operands of up to MaxAxes
\* axes
\* ------------------------------------------------------------------------

MaxAxes == 4

\* the variables the loops taken on their own leave as a call finds them
Untouched ==
    /\ reorderable = TRUE
    /\ identity = Py_None
    /\ wheremask = NULL
    /\ errormask = FALSE
    /\ out = NULL
    /\ heap = [o \in {"out", "copy", "alloc"} |-> NoArray]
    /\ result = NULL
    /\ iter = NULL
    /\ fpstatus = FALSE
    /\ pyerr = "none"
    /\ errmsg = NoMsg
    /\ loop_calls = <<>>
    /\ iter_steps = 0
    /\ dealloc_calls = 0
    /\ refs = 0
    /\ fp_clears = 0
    /\ retval = "pending"

InitAxes ==
    /\ operand \in UNION {[1..n -> 1..MaxExtent] : n \in 0..MaxAxes}
    /\ axis_flags \in [1..Len(operand) -> BOOLEAN]
    /\ keepdims \in BOOLEAN
    /\ pc = "result_axes_loop"
    /\ result_axes = <<>>
    /\ curr_axis = 0
    /\ skip_first_count = 0
    /\ Untouched

\* one pass of for (int i = 0; i < PyArray_NDIM(operand); i++); i is the
\* number of entries of result_axes written so far
ResultAxesStep ==
    /\ pc = "result_axes_loop"
    /\ Len(result_axes) < PyArray_NDIM(operand)
    /\ LET m == result_axes_step(axis_flags, keepdims, Len(result_axes),
                                 [result_axes |-> result_axes, curr_axis |-> curr_axis]) IN
       /\ result_axes' = m.result_axes
       /\ curr_axis' = m.curr_axis
    /\ UNCHANGED <<inputs, pc, result, skip_first_count, iter, world, retval>>

\* the loop is left when i reaches PyArray_NDIM(operand)
ResultAxesExit ==
    /\ pc = "result_axes_loop"
    /\ Len(result_axes) = PyArray_NDIM(operand)
    /\ pc' = "result_axes_done"
    /\ UNCHANGED <<inputs, locals, world, retval>>

NextAxes ==
    \/ ResultAxesStep
    \/ ResultAxesExit

SpecAxes == InitAxes /\ [][NextAxes]_vars

\* axis j (counted from 1) is given an ordinal: it is not reduced, or it is
\* reduced and kept
CarriesOrdinal(j) == ~axis_flags[j] \/ keepdims

\* the number of axes before axis j that are given an ordinal
OrdinalsBefore(j) == Cardinality({k \in 1..(j - 1) : CarriesOrdinal(k)})

\* C16: the ordinals are handed out consecutively from 0 in increasing axis
\* order to the axes that carry one: every non-reduced axis and, with
\* keepdims, every reduced axis, so that with keepdims axis i has ordinal i
\* and the count of ordinals is the rank; without keepdims a reduced axis is
\* a reduction axis with ordinal -1 and the count is the rank less
\* count_axes; a reduced axis is always marked as a reduction axis
C16_ResultAxesMapping ==
    /\ Len(result_axes) <= PyArray_NDIM(operand)
    /\ \A j \in 1..Len(result_axes) :
          /\ result_axes[j].reduction = axis_flags[j]
          /\ CarriesOrdinal(j) => result_axes[j].axis = OrdinalsBefore(j)
          /\ ~CarriesOrdinal(j) => result_axes[j].axis = -1
          /\ keepdims => result_axes[j].axis = j - 1
    /\ \A j, k \in 1..Len(result_axes) :
          (j < k /\ CarriesOrdinal(j) /\ CarriesOrdinal(k)) =>
              result_axes[j].axis < result_axes[k].axis
    /\ {result_axes[j].axis : j \in {k \in 1..Len(result_axes) : CarriesOrdinal(k)}}
          = 0..(curr_axis - 1)
    /\ pc = "result_axes_done" =>
          /\ Len(result_axes) = PyArray_NDIM(operand)
          /\ curr_axis = (IF keepdims
                          THEN PyArray_NDIM(operand)
                          ELSE PyArray_NDIM(operand)
                                   - count_axes(PyArray_NDIM(operand), axis_flags))
          /\ SetupResultAxes(PyArray_NDIM(operand), axis_flags, keepdims)
                = [result_axes |-> result_axes, curr_axis |-> curr_axis]

\* the mapping of a three-axis operand reduced over its middle axis, without
\* keepdims
C16_Witness ==
    /\ pc = "result_axes_done"
    /\ axis_flags = <<FALSE, TRUE, FALSE>>
    /\ ~keepdims
    /\ result_axes = <<PlainAxis(0), NPY_ITER_REDUCTION_AXIS(-1), PlainAxis(1)>>
    /\ curr_axis = 2

\* ------------------------------------------------------------------------
\* C17: PyArray_CopyInitialReduceValues on its own, up to its return value,
\* for operands that are broadcast views (all strides 0) with extents up to
\* 2^16
\* ------------------------------------------------------------------------

MaxSeedAxes == 3

\* the extents tried
SeedExtents == {0, 1, 2, LimbBase, 2 * LimbBase}

\* the strides of a view that repeats one element along every axis
BroadcastStrides(shape) == [i \in 1..Len(shape) |-> 0]

InitSeed ==
    /\ operand \in UNION {[1..n -> SeedExtents] : n \in 0..MaxSeedAxes}
    /\ axis_flags \in [1..Len(operand) -> BOOLEAN]
    /\ keepdims \in BOOLEAN
    /\ pc = "seeder_call"
    /\ result_axes = <<>>
    /\ curr_axis = 0
    /\ skip_first_count = 0
    /\ Untouched

\* skip_first_count = PyArray_CopyInitialReduceValues(...), the copy into the
\* result left out: the error raised is kept in pyerr
SeederCall ==
    /\ pc = "seeder_call"
    /\ \E view_ok \in BOOLEAN, copy_ok \in BOOLEAN :
          LET view == CopyInitial_loop(operand, BroadcastStrides(operand),
                                       axis_flags, keepdims, CopyInitial_start) IN
          IF view.error
          THEN skip_first_count' = -1 /\ pyerr' = "EmptyReductionError"
          ELSE IF ~view_ok
          THEN skip_first_count' = -1 /\ pyerr' = "MemoryError"
          ELSE IF ~copy_ok
          THEN skip_first_count' = -1 /\ pyerr' = "CopyError"
          ELSE skip_first_count' = ToInt(view.size) /\ pyerr' = "none"
    /\ pc' = "seeder_returned"
    /\ UNCHANGED <<inputs, result, iter, result_axes, curr_axis, heap, fpstatus,
                   errmsg, loop_calls, iter_steps, dealloc_calls, refs,
                   fp_clears, retval>>

NextSeed == SeederCall

SpecSeed == InitSeed /\ [][NextSeed]_vars

RECURSIVE NonReducedProduct(_)
\* the product of the extents of the non-reduced axes from axis i on, as an
\* npy_intp
NonReducedProduct(i) ==
    IF i > Len(operand)
    THEN npy_intp(1)
    ELSE IF axis_flags[i]
    THEN NonReducedProduct(i + 1)
    ELSE MulIntp(NonReducedProduct(i + 1), operand[i])

\* the seeder reached its return statement
SeederSucceeded == pc = "seeder_returned" /\ pyerr = "none"

\* C17: when the seeder succeeds, the value it returns is the product of the
\* extents of the non-reduced axes of the operand
C17_AsStated ==
    SeederSucceeded =>
        /\ skip_first_count >= 0
        /\ npy_intp(skip_first_count) = NonReducedProduct(1)

\* C17, for the products an int holds: the value returned is the product of
\* the extents of the non-reduced axes whenever that product is below 2^31
C17_WithinInt ==
    (SeederSucceeded /\ \A k \in 4..5 : NonReducedProduct(1)[k] = 0
                     /\ NonReducedProduct(1)[3] < 2) =>
        /\ skip_first_count >= 0
        /\ npy_intp(skip_first_count) = NonReducedProduct(1)

\* an operand of shape (65536, 32768, 2) reduced over its last axis: the
\* product of the non-reduced extents is 2^31 and the seeder returns a
\* negative value although it raised nothing
C17_Truncated ==
    /\ SeederSucceeded
    /\ operand = <<2 * LimbBase, LimbBase, 2>>
    /\ axis_flags = <<FALSE, FALSE, TRUE>>
    /\ skip_first_count < 0

\* an operand of shape (65536, 65536, 2) reduced over its last axis: the
\* product is 2^32 and the seeder returns 0
C17_TruncatedToZero ==
    /\ SeederSucceeded
    /\ operand = <<2 * LimbBase, 2 * LimbBase, 2>>
    /\ axis_flags = <<FALSE, FALSE, TRUE>>
    /\ skip_first_count = 0

\* ------------------------------------------------------------------------
\* C18
\* ------------------------------------------------------------------------

StructuralErrors ==
    {"NonReorderableMultiAxisError", "WhereWithoutIdentityError",
     "OutputShapeMismatchError", "EmptyReductionError"}

\* what each structural check fails on, as a condition on the arguments
FailsReorderable == ~reorderable /\ NFlagged > 1
FailsWhere == wheremask # NULL /\ identity = Py_None
FailsOutRank == out # NULL /\ OutNdim # ExpectedNdim(keepdims)
FailsEmpty == identity = Py_None /\ HasEmptyReducedAxis

\* the error of the first structural check, in the order of the checks, that
\* the arguments fail
FirstStructuralError ==
    IF FailsReorderable THEN "NonReorderableMultiAxisError"
    ELSE IF FailsWhere THEN "WhereWithoutIdentityError"
    ELSE IF FailsOutRank THEN "OutputShapeMismatchError"
    ELSE IF FailsEmpty THEN "EmptyReductionError"
    ELSE "none"

\* C18: the structural checks are made in the order reorderable, where, out
\* rank, empty reduced axis; a call whose arguments fail one of the first
\* three ends with the error of the first of them it fails, a call that fails
\* only the last ends with EmptyReductionError once the cursor was built, and
\* no call reports a structural error other than the first its arguments fail
C18_FirstErrorReported ==
    /\ pyerr \in StructuralErrors => pyerr = FirstStructuralError
    /\ (Terminated /\ (FailsReorderable \/ FailsWhere \/ FailsOutRank)) =>
          (pc = "Failed" /\ pyerr = FirstStructuralError)
    /\ (Terminated /\ FirstStructuralError = "EmptyReductionError") =>
          /\ pc = "Failed"
          /\ iter # NULL => pyerr = "EmptyReductionError"
    /\ pyerr = "WhereWithoutIdentityError" => Position(pc) > Position("check_where")
    /\ pyerr = "OutputShapeMismatchError" => Position(pc) > Position("setup_axes")
    /\ pyerr = "EmptyReductionError" => Position(pc) > Position("seed")

\* a call whose arguments fail all four checks ends with the error of the
\* first
C18_Witness ==
    /\ pc = "Failed"
    /\ FailsReorderable
    /\ FailsWhere
    /\ FailsOutRank
    /\ FailsEmpty
    /\ pyerr = "NonReorderableMultiAxisError"

====
